---- MODULE Spec2Model ----
(***************************************************************************)
(* rpc-provider-checker: the adaptive range fetcher and its store          *)
(* (logcounts_to_db.py), the deep discrepancy localizer (narrow_block.py)  *)
(* and the shallow one with its window selection (verify_logs.py), as      *)
(* state machines.                                                         *)
(*                                                                         *)
(* Block numbers are small naturals.  A provider endpoint string is a      *)
(* sequence of tokens: "http://" and "https://" stand for those literal    *)
(* prefixes, "/" for a slash, " " for a whitespace character, any other    *)
(* token for a run of host characters.                                     *)
(***************************************************************************)
EXTENDS Integers, Sequences, FiniteSets, TLC

VARIABLES
    \* ---- logcounts_to_db.py: module globals
    PROVIDER,     \* endpoint string of the current process
    MIN_RANGE,    \* minimum splittable width
    START, END, STEP, RANGE,
    \* ---- logcounts_to_db.py: main() and get_log_count_with_splitting()
    pc,           \* "idle" | "fetch" | "returned" | "raised" | "done" | "aborted"
    b, e,         \* the chunk window of the current for-iteration
    queue,        \* work list of get_log_count_with_splitting
    total,        \* running total of get_log_count_with_splitting
    exc,          \* the exception in flight when pc = "raised"
    log_ranges,   \* table log_ranges: a set of rows
    runs,         \* number of times main() was started
    \* ---- the provider behind PROVIDER
    chain,        \* logs per block, as the endpoint serves them
    faults,       \* the exceptions a failing call to the endpoint raises
    \* ---- history of the current fetch and of the current run
    counted,      \* sub-ranges whose count was added to total
    lastCall,     \* the last _rpc_logs call of this fetch and how it ended
    nFail,        \* _rpc_logs failures during this fetch
    outcomes,     \* per chunk window of this run: what the fetch delivered
    \* ---- a free-standing client of class DB, and its history
    clientOps,    \* number of statements the client has executed
    prevRows,     \* log_ranges before the client's last statement
    lastOp,       \* the client's last statement
    \* ---- narrow_block.py: main()
    dpc,          \* "start" | "range" | "narrow" | "scanned" | "end"
    ranges,       \* rows read from rpc_discrepancies: <<from, to, count>>
    ri,           \* index in ranges of the range at hand
    n_test, n_ref,\* aggregate counts of the range at hand
    blk,          \* block at hand of the per-block loop
    reported,     \* blocks printed as "Block blk: ref=.. test=.." for this range
    refChain,     \* logs per block as REF_PROVIDER serves them
    testChain,    \* logs per block as TEST_PROVIDER serves them
    \* ---- history of the range at hand
    aggCalls,     \* get_log_count calls over the whole range
    blockCalls,   \* per-block get_log_count calls: <<provider, block, failed>>
    \* ---- table rpc_discrepancies, written by verify_logs.py, read by narrow_block.py
    rpc_discrepancies, \* the rows in id order
    discBefore,   \* rpc_discrepancies as the localizer at hand found it
    \* ---- verify_logs.py: module globals and main()
    args_from_block, args_to_block,   \* --from_block / --to_block, or None
    ENV_FROM_BLOCK, ENV_TO_BLOCK,     \* FROM_BLOCK / TO_BLOCK of the environment, or None
    vpc,          \* "start" | "compare" | "end"
    all_ranges,   \* rows read from log_ranges: <<from, to, cnt>>
    selected,     \* the ranges main() compares
    si,           \* index in selected of the range at hand
    vruns,        \* number of times main() of verify_logs.py was started
    lastCmp,      \* the last comparison of main(): range, stored and live count
    \* ---- the work list taken in any order (get_log_count_with_splitting)
    failing,      \* sub-ranges on which the provider fails, whenever asked
    tookOther,    \* whether a sub-range was taken from elsewhere than the end
    \* ---- logcounts_to_db.py: the configuration of the process at hand
    absent        \* names of the required values the process was started without

fetchVars == <<PROVIDER, MIN_RANGE, START, END, STEP, RANGE, pc, b, e, queue, total,
               exc, log_ranges, runs, chain, faults, counted, lastCall, nFail, outcomes>>

clientVars == <<clientOps, prevRows, lastOp>>

fetchVarsButRows == <<PROVIDER, MIN_RANGE, START, END, STEP, RANGE, pc, b, e, queue, total,
                      exc, runs, chain, faults, counted, lastCall, nFail, outcomes>>

deepVars == <<dpc, ranges, ri, n_test, n_ref, blk, reported, refChain, testChain,
              aggCalls, blockCalls>>

discVars == <<rpc_discrepancies, discBefore>>

shallowVars == <<args_from_block, args_to_block, ENV_FROM_BLOCK, ENV_TO_BLOCK, vpc,
                 all_ranges, selected, si, vruns, lastCmp>>

orderVars == <<failing, tookOther>>

configVars == <<absent>>

\* What the fetcher, the store's client and the deep localizer never touch.
otherVars == <<discVars, shallowVars, orderVars, configVars>>

vars == <<fetchVars, clientVars, deepVars, otherVars>>

--------------------------------------------------------------------------
\* Bounds of the model.

\* Highest block number.
MaxBlock == 5

\* Largest minimum splittable width drawn for MIN_RANGE.
MaxMinRange == 2

\* Most logs a block holds.
MaxLogs == 1

\* Most starts of main() in one behaviour.
MaxRuns == 2

\* Most statements on log_ranges in one behaviour of the store alone.
MaxOps == 3

Blocks == 0..MaxBlock

NoValue == "NULL"

\* Whether a column value is NULL (a value of any kind can be asked).
IsNull(v) == ToString(v) = ToString(NoValue)

\* An optional block number is None or <<n>>.
None == <<>>

--------------------------------------------------------------------------
\* Small helpers.

Min(x, y) == IF x <= y THEN x ELSE y

Last(s) == s[Len(s)]

Front(s) == SubSeq(s, 1, Len(s) - 1)

Width(f, t) == t - f + 1

\* Blocks of the inclusive range [f, t].
BlocksOf(r) == r[1]..r[2]

--------------------------------------------------------------------------
\* The provider: logs per block, and the failures a call can end in.

\* Log profiles of the chain the endpoint serves.
ChainProfiles ==
    { [x \in Blocks |-> IF x % 3 = 1 THEN 0 ELSE 1 + (x % (MaxLogs + 1))] }

RECURSIVE ChainCount(_, _, _)
\* Number of logs the chain c holds in blocks f..t.
ChainCount(c, f, t) ==
    IF f > t THEN 0 ELSE c[f] + ChainCount(c, f + 1, t)

\* Length of the longest message RuntimeError("Bad RPC response: ...") carries.
BadRpcMsgLen == 418

\* Exceptions _rpc_logs can raise.  A message is its identity and its length.
HTTPErrorExc == [type |-> "HTTPError", msg |-> [id |-> "server error for url", len |-> 950]]

BadRpcExc == [type |-> "RuntimeError", msg |-> [id |-> "Bad RPC response", len |-> BadRpcMsgLen]]

JSONDecodeExc == [type |-> "JSONDecodeError", msg |-> [id |-> "Expecting value", len |-> 40]]

RpcExceptions == {HTTPErrorExc, BadRpcExc, JSONDecodeExc}

\* The except clause of get_log_count_with_splitting.
CaughtTypes == {"ReadTimeout", "ConnectTimeout", "HTTPError", "RuntimeError", "ConnectionError"}

SPLIT_ON_ERRORS == TRUE

\* _rpc_logs on success: len(data["result"]) for fromBlock..toBlock.
rpc_logs(b_from, b_to) == ChainCount(chain, b_from, b_to)

--------------------------------------------------------------------------
\* get_log_count_with_splitting

InitialQueueShort(b_from, b_to) == << <<b_from, b_to - 1>> >>

InitialQueue(b_from, b_to) == << <<b_from, b_to>> >>

MustRaiseStrict(ex, width) ==
    \/ ex.type \notin CaughtTypes
    \/ ~SPLIT_ON_ERRORS
    \/ width < MIN_RANGE

\* Whether a failure on a sub-range of this width leaves the function.
MustRaise(ex, width) ==
    \/ ex.type \notin CaughtTypes
    \/ ~SPLIT_ON_ERRORS
    \/ width <= MIN_RANGE

SplitMidHigh(f, width) == f + (width \div 2)

\* mid = f + (width // 2) - 1
SplitMid(f, width) == f + (width \div 2) - 1

SplitHalvesOverlap(f, t) ==
    LET mid == SplitMid(f, Width(f, t))
    IN  << <<mid, t>>, <<f, mid>> >>

\* The two sub-ranges pushed for a failing (f, t), in push order.
SplitHalves(f, t) ==
    LET mid == SplitMid(f, Width(f, t))
    IN  << <<mid + 1, t>>, <<f, mid>> >>

\* total += _rpc_logs(PROVIDER, f, t, CONTRACT, TOPIC)
RpcOk ==
    /\ pc = "fetch"
    /\ queue # <<>>
    /\ LET f == Last(queue)[1]
           t == Last(queue)[2]
       IN  /\ total' = total + rpc_logs(f, t)
           /\ queue' = Front(queue)
           /\ counted' = counted \cup {<<f, t>>}
           /\ lastCall' = [f |-> f, t |-> t, failed |-> FALSE]
    /\ UNCHANGED <<PROVIDER, MIN_RANGE, START, END, STEP, RANGE, pc, b, e, exc,
                   log_ranges, runs, chain, faults, nFail, outcomes, clientVars, deepVars, otherVars>>

\* _rpc_logs raises, the except clause catches and the sub-range is split.
RpcFailSplit ==
    /\ pc = "fetch"
    /\ queue # <<>>
    /\ \E ex \in faults :
         LET f == Last(queue)[1]
             t == Last(queue)[2]
         IN  /\ ~MustRaise(ex, Width(f, t))
             /\ queue' = Front(queue) \o SplitHalves(f, t)
             /\ lastCall' = [f |-> f, t |-> t, failed |-> TRUE]
    /\ nFail' = nFail + 1
    /\ UNCHANGED <<PROVIDER, MIN_RANGE, START, END, STEP, RANGE, pc, b, e, total, exc,
                   log_ranges, runs, chain, faults, counted, outcomes, clientVars, deepVars, otherVars>>

\* _rpc_logs raises and the exception leaves get_log_count_with_splitting.
RpcFailRaise ==
    /\ pc = "fetch"
    /\ queue # <<>>
    /\ \E ex \in faults :
         LET f == Last(queue)[1]
             t == Last(queue)[2]
         IN  /\ MustRaise(ex, Width(f, t))
             /\ exc' = ex
             /\ lastCall' = [f |-> f, t |-> t, failed |-> TRUE]
    /\ queue' = Front(queue)
    /\ pc' = "raised"
    /\ nFail' = nFail + 1
    /\ UNCHANGED <<PROVIDER, MIN_RANGE, START, END, STEP, RANGE, b, e, total,
                   log_ranges, runs, chain, faults, counted, outcomes, clientVars, deepVars, otherVars>>

\* while queue: ... return total
FetchReturn ==
    /\ pc = "fetch"
    /\ queue = <<>>
    /\ pc' = "returned"
    /\ UNCHANGED <<PROVIDER, MIN_RANGE, START, END, STEP, RANGE, b, e, queue, total, exc,
                   log_ranges, runs, chain, faults, counted, lastCall, nFail, outcomes, clientVars, deepVars, otherVars>>

RpcCall == RpcOk \/ RpcFailSplit \/ RpcFailRaise

--------------------------------------------------------------------------
\* Provider strings and the table log_ranges.

CONTRACT == "0xe91D153E0b41518A2Ce8Dd3D7944Fa863463a97d"

TOPIC == "0xddf252ad1be2c89b69c2b068fc378daa952ba7f163c4a11628f55a4df523b3ef"

\* emsg[:900] in DB.upsert_err
MsgCap == 900

\* Endpoint strings found in the provider column.
Providers ==
    { <<"http://", "a">>,
      <<"https://", "a", "/">>,
      <<"https://", "a", "/", "/">>,
      <<"http://", "b">> }

\* Endpoint strings a fetch process is started with (--provider / PROVIDER).
RunProviders ==
    { <<"http://", "a">>,
      <<"https://", "a", "/", "/">>,
      <<"http://", "b">> }

RECURSIVE LStripWs(_)
LStripWs(p) == IF p # <<>> /\ Head(p) = " " THEN LStripWs(Tail(p)) ELSE p

RECURSIVE RStripWs(_)
RStripWs(p) == IF p # <<>> /\ Last(p) = " " THEN RStripWs(Front(p)) ELSE p

RECURSIVE RStripSlash(_)
\* p.rstrip("/"): every trailing slash goes.
RStripSlash(p) == IF p # <<>> /\ Last(p) = "/" THEN RStripSlash(Front(p)) ELSE p

\* _normalize_provider_base: strip(), one leading scheme, rstrip("/").
normalize_provider_base(p) ==
    LET s == RStripWs(LStripWs(p))
        u == IF s # <<>> /\ Head(s) = "http://" THEN Tail(s)
             ELSE IF s # <<>> /\ Head(s) = "https://" THEN Tail(s)
             ELSE s
    IN  RStripSlash(u)

\* The variants tuple of pg_clean_provider / sqlite_clean_provider.
ProviderVariants(base) ==
    { base,
      <<"http://">> \o base,
      <<"https://">> \o base,
      base \o <<"/">>,
      <<"http://">> \o base \o <<"/">>,
      <<"https://">> \o base \o <<"/">> }

\* DELETE FROM log_ranges WHERE provider IN (variants)
pg_clean_provider(rows, provider) ==
    {r \in rows : r.provider \notin ProviderVariants(normalize_provider_base(provider))}

\* The primary key of a row.
KeyOf(r) == <<r.from_block, r.to_block, r.provider>>

pg_upsert_by_range(rows, b_from, b_to, cnt, status, error_type, error_msg) ==
    LET new == [from_block |-> b_from, to_block |-> b_to, cnt |-> cnt, status |-> status,
                error_type |-> error_type, error_msg |-> error_msg,
                provider |-> PROVIDER, contract |-> CONTRACT, topic |-> TOPIC]
    IN  {r \in rows : ~(r.from_block = b_from /\ r.to_block = b_to)} \cup {new}

\* INSERT ... ON CONFLICT (from_block, to_block, provider) DO UPDATE SET every
\* column to the new value (updated_at, a wall-clock time, is left out).
pg_upsert(rows, b_from, b_to, cnt, status, error_type, error_msg) ==
    LET new == [from_block |-> b_from, to_block |-> b_to, cnt |-> cnt, status |-> status,
                error_type |-> error_type, error_msg |-> error_msg,
                provider |-> PROVIDER, contract |-> CONTRACT, topic |-> TOPIC]
    IN  {r \in rows : KeyOf(r) # KeyOf(new)} \cup {new}

\* emsg[:900]
Truncate(msg, n) == [msg EXCEPT !.len = Min(msg.len, n)]

\* DB.upsert_ok
upsert_ok(rows, b_from, b_to, cnt) ==
    pg_upsert(rows, b_from, b_to, cnt, "OK", NoValue, NoValue)

upsert_err_zero_cnt(rows, b_from, b_to, etype, emsg) ==
    pg_upsert(rows, b_from, b_to, 0, "ERROR", etype, Truncate(emsg, MsgCap))

\* DB.upsert_err
upsert_err(rows, b_from, b_to, etype, emsg) ==
    pg_upsert(rows, b_from, b_to, NoValue, "ERROR", etype, Truncate(emsg, MsgCap))

--------------------------------------------------------------------------
\* The parts of the state a specification leaves at rest.

NoCall == [f |-> 0, t |-> 0, failed |-> FALSE]

NoExc == [type |-> NoValue, msg |-> [id |-> NoValue, len |-> 0]]

NoOp == [op |-> "none"]

\* No client statement yet.
ClientIdle ==
    /\ clientOps = 0
    /\ prevRows = {}
    /\ lastOp = NoOp

\* narrow_block.py not started.
DeepIdle ==
    /\ dpc = "start"
    /\ ranges = <<>>
    /\ ri = 0
    /\ n_test = 0 /\ n_ref = 0
    /\ blk = 0
    /\ reported = {}
    /\ refChain \in ChainProfiles
    /\ testChain = refChain
    /\ aggCalls = 0
    /\ blockCalls = {}

NoCmp == [b |-> 0, e |-> 0, n_old |-> 0, n_new |-> 0, before |-> <<>>]

\* Table rpc_discrepancies empty.
DiscIdle ==
    /\ rpc_discrepancies = <<>>
    /\ discBefore = <<>>

\* verify_logs.py not started.
ShallowIdle ==
    /\ args_from_block = None /\ args_to_block = None
    /\ ENV_FROM_BLOCK = None /\ ENV_TO_BLOCK = None
    /\ vpc = "start"
    /\ all_ranges = <<>>
    /\ selected = <<>>
    /\ si = 0
    /\ vruns = 0
    /\ lastCmp = NoCmp

\* No work list taken out of order.
OrderIdle ==
    /\ failing = {}
    /\ tookOther = FALSE

\* Every required value of the process at hand was there.
ConfigIdle == absent = {}

OtherIdle == DiscIdle /\ ShallowIdle /\ OrderIdle /\ ConfigIdle

\* logcounts_to_db.py not started, its table empty.
FetchIdle ==
    /\ PROVIDER = <<>>
    /\ MIN_RANGE = 1
    /\ START = 0 /\ END = MaxBlock /\ STEP = 1 /\ RANGE = 1
    /\ pc = "idle"
    /\ b = 0 /\ e = 0
    /\ queue = <<>>
    /\ total = 0
    /\ exc = NoExc
    /\ log_ranges = {}
    /\ runs = 0
    /\ chain \in ChainProfiles
    /\ faults = {}
    /\ counted = {}
    /\ lastCall = NoCall
    /\ nFail = 0
    /\ outcomes = <<>>

--------------------------------------------------------------------------
\* get_log_count_with_splitting alone, on every window and minimum width.

InitSplit ==
    /\ PROVIDER = <<"http://", "a">>
    /\ MIN_RANGE \in 1..MaxMinRange
    /\ START = 0 /\ END = MaxBlock /\ STEP = 1 /\ RANGE = 1
    /\ b \in Blocks
    /\ e \in b..MaxBlock
    /\ pc = "fetch"
    /\ queue = InitialQueue(b, e)
    /\ total = 0
    /\ exc = NoExc
    /\ log_ranges = {}
    /\ runs = 1
    /\ chain \in ChainProfiles
    /\ faults = RpcExceptions
    /\ counted = {}
    /\ lastCall = NoCall
    /\ nFail = 0
    /\ outcomes = <<>>
    /\ ClientIdle
    /\ DeepIdle
    /\ OtherIdle

NextSplit == RpcOk \/ RpcFailSplit \/ RpcFailRaise \/ FetchReturn

SpecSplit == InitSplit /\ [][NextSplit]_vars

--------------------------------------------------------------------------
\* get_log_count_with_splitting against a provider whose outcome on a
\* sub-range is fixed, with the work list taken in any order.

AddCountOverwrite(tot, cnt) == cnt

\* total += count
AddCount(tot, cnt) == tot + cnt

RECURSIVE SplittingLoop(_, _)
\* The while loop as coded, from work list q and running total tot, against
\* the provider that fails on the sub-ranges of failing: the total returned,
\* or the sub-range on which the loop raises.
SplittingLoop(q, tot) ==
    IF q = <<>> THEN [kind |-> "returned", total |-> tot, f |-> 0, t |-> 0]
    ELSE LET f == Last(q)[1]
             t == Last(q)[2]
         IN  IF <<f, t>> \notin failing
             THEN SplittingLoop(Front(q), AddCount(tot, rpc_logs(f, t)))
             ELSE IF MustRaise(HTTPErrorExc, Width(f, t))
             THEN [kind |-> "raised", total |-> tot, f |-> f, t |-> t]
             ELSE SplittingLoop(Front(q) \o SplitHalves(f, t), tot)

\* get_log_count_with_splitting(b_from, b_to) as coded.
get_log_count_with_splitting(b_from, b_to) ==
    SplittingLoop(InitialQueue(b_from, b_to), 0)

\* One turn of the loop that takes the pending sub-range at any position of
\* the work list (the code takes the last one) and treats it as the code does.
TakeAny ==
    /\ pc = "fetch"
    /\ queue # <<>>
    /\ \E i \in 1..Len(queue) :
         LET f == queue[i][1]
             t == queue[i][2]
             rest == SubSeq(queue, 1, i - 1) \o SubSeq(queue, i + 1, Len(queue))
         IN  /\ tookOther' = (tookOther \/ i # Len(queue))
             /\ lastCall' = [f |-> f, t |-> t, failed |-> (<<f, t>> \in failing)]
             /\ IF <<f, t>> \notin failing
                THEN /\ total' = AddCount(total, rpc_logs(f, t))
                     /\ queue' = rest
                     /\ counted' = counted \cup {<<f, t>>}
                     /\ UNCHANGED <<pc, exc, nFail>>
                ELSE IF MustRaise(HTTPErrorExc, Width(f, t))
                THEN /\ pc' = "raised"
                     /\ exc' = HTTPErrorExc
                     /\ queue' = rest
                     /\ nFail' = nFail + 1
                     /\ UNCHANGED <<total, counted>>
                ELSE /\ queue' = rest \o SplitHalves(f, t)
                     /\ nFail' = nFail + 1
                     /\ UNCHANGED <<pc, exc, total, counted>>
    /\ UNCHANGED <<PROVIDER, MIN_RANGE, START, END, STEP, RANGE, b, e, log_ranges, runs,
                   chain, faults, outcomes, failing, clientVars, deepVars, discVars,
                   shallowVars, configVars>>

RECURSIVE SplitTree(_, _)
\* The sub-ranges that splits of (f, t), and of halves of it, can put on the
\* work list, (f, t) included.
SplitTree(f, t) ==
    IF f >= t THEN {<<f, t>>}
    ELSE LET h == SplitHalves(f, t)
         IN  {<<f, t>>} \cup SplitTree(h[1][1], h[1][2]) \cup SplitTree(h[2][1], h[2][2])

InitOrder ==
    /\ PROVIDER = <<"http://", "a">>
    /\ MIN_RANGE \in 1..MaxMinRange
    /\ START = 0 /\ END = MaxBlock /\ STEP = 1 /\ RANGE = 1
    /\ b \in Blocks
    /\ e \in b..MaxBlock
    /\ pc = "fetch"
    /\ queue = InitialQueue(b, e)
    /\ total = 0
    /\ exc = NoExc
    /\ log_ranges = {}
    /\ runs = 1
    /\ chain \in ChainProfiles
    /\ faults = {HTTPErrorExc}
    /\ counted = {}
    /\ lastCall = NoCall
    /\ nFail = 0
    /\ outcomes = <<>>
    /\ ClientIdle
    /\ DeepIdle
    /\ DiscIdle
    /\ ShallowIdle
    /\ ConfigIdle
    /\ failing \in {{}} \cup {{x, y, z} : x \in SplitTree(b, e), y \in SplitTree(b, e),
                                            z \in SplitTree(b, e)}
    /\ tookOther = FALSE

NextOrder == TakeAny \/ FetchReturn

SpecOrder == InitOrder /\ [][NextOrder]_vars

--------------------------------------------------------------------------
\* main() of logcounts_to_db.py: one process per run, over one shared table.

\* Values of --start / --step / --range drawn for a run; --end is MaxBlock.
StartValues == {0}

StepValues == {MaxBlock \div 2 + 1}

RangeValues == {2, MaxBlock \div 2 + 2}

\* e = min(b + RANGE - 1, END)
WindowEnd(x, range, end) == Min(x + range - 1, end)

\* State of a fetch that has issued no call yet.
FreshFetch(x, y) ==
    /\ b' = x
    /\ e' = y
    /\ queue' = InitialQueue(x, y)
    /\ total' = 0
    /\ exc' = NoExc
    /\ counted' = {}
    /\ lastCall' = NoCall
    /\ nFail' = 0

\* The for statement after the window starting at b: the next window's fetch
\* begins, or the loop is over.
NextIteration ==
    IF b + STEP <= END
    THEN /\ pc' = "fetch"
         /\ FreshFetch(b + STEP, WindowEnd(b + STEP, RANGE, END))
    ELSE /\ pc' = "done"
         /\ UNCHANGED <<b, e, queue, total, exc, counted, lastCall, nFail>>

\* A process starts: arguments into globals, DB(DB_URL),
\* db.clean_provider(PROVIDER), then the first iteration of the for loop.
StartRun ==
    /\ pc \in {"idle", "done"}
    /\ runs < MaxRuns
    /\ runs' = runs + 1
    /\ \E p \in RunProviders, s \in StartValues, st \in StepValues, rg \in RangeValues :
         /\ PROVIDER' = p
         /\ START' = s
         /\ END' = MaxBlock
         /\ STEP' = st
         /\ RANGE' = rg
         /\ log_ranges' = pg_clean_provider(log_ranges, p)
         /\ IF s <= MaxBlock
            THEN /\ pc' = "fetch"
                 /\ FreshFetch(s, WindowEnd(s, rg, MaxBlock))
            ELSE /\ pc' = "done"
                 /\ UNCHANGED <<b, e, queue, total, exc, counted, lastCall, nFail>>
    /\ outcomes' = <<>>
    /\ UNCHANGED <<MIN_RANGE, chain, faults, clientVars, deepVars, otherVars>>

MainOkPerSubrange ==
    /\ pc = "returned"
    /\ log_ranges' =
         {r \in log_ranges : \A c \in counted : KeyOf(r) # <<c[1], c[2], PROVIDER>>}
         \cup {[from_block |-> c[1], to_block |-> c[2], cnt |-> rpc_logs(c[1], c[2]),
                status |-> "OK", error_type |-> NoValue, error_msg |-> NoValue,
                provider |-> PROVIDER, contract |-> CONTRACT, topic |-> TOPIC] : c \in counted}
    /\ outcomes' = Append(outcomes, [b |-> b, e |-> e, kind |-> "ok", cnt |-> total,
                                     exc |-> NoExc])
    /\ NextIteration
    /\ UNCHANGED <<PROVIDER, MIN_RANGE, START, END, STEP, RANGE, runs, chain, faults, clientVars, deepVars, otherVars>>

\* cnt = get_log_count_with_splitting(b, e); db.upsert_ok(b, e, cnt)
MainOk ==
    /\ pc = "returned"
    /\ log_ranges' = upsert_ok(log_ranges, b, e, total)
    /\ outcomes' = Append(outcomes, [b |-> b, e |-> e, kind |-> "ok", cnt |-> total,
                                     exc |-> NoExc])
    /\ NextIteration
    /\ UNCHANGED <<PROVIDER, MIN_RANGE, START, END, STEP, RANGE, runs, chain, faults, clientVars, deepVars, otherVars>>

MainErrAbort ==
    /\ pc = "raised"
    /\ log_ranges' = upsert_err(log_ranges, b, e, exc.type, exc.msg)
    /\ outcomes' = Append(outcomes, [b |-> b, e |-> e, kind |-> "err", cnt |-> NoValue,
                                     exc |-> exc])
    /\ pc' = "done"
    /\ UNCHANGED <<b, e, queue, total, exc, counted, lastCall, nFail>>
    /\ UNCHANGED <<PROVIDER, MIN_RANGE, START, END, STEP, RANGE, runs, chain, faults, clientVars, deepVars, otherVars>>

\* except Exception as ex: db.upsert_err(b, e, type(ex).__name__, str(ex))
MainErr ==
    /\ pc = "raised"
    /\ log_ranges' = upsert_err(log_ranges, b, e, exc.type, exc.msg)
    /\ outcomes' = Append(outcomes, [b |-> b, e |-> e, kind |-> "err", cnt |-> NoValue,
                                     exc |-> exc])
    /\ NextIteration
    /\ UNCHANGED <<PROVIDER, MIN_RANGE, START, END, STEP, RANGE, runs, chain, faults, clientVars, deepVars, otherVars>>

\* The process is killed in the middle of a scan: its locals are gone, the
\* committed rows stay.
Interrupt ==
    /\ pc \in {"fetch", "returned", "raised"}
    /\ pc' = "idle"
    /\ b' = 0 /\ e' = 0
    /\ queue' = <<>>
    /\ total' = 0
    /\ exc' = NoExc
    /\ counted' = {}
    /\ lastCall' = NoCall
    /\ nFail' = 0
    /\ outcomes' = <<>>
    /\ UNCHANGED <<PROVIDER, MIN_RANGE, START, END, STEP, RANGE, log_ranges, runs, chain,
                   faults, clientVars, deepVars, otherVars>>

Init ==
    /\ PROVIDER = <<>>
    /\ MIN_RANGE \in {1, MaxMinRange}
    /\ START = 0 /\ END = MaxBlock /\ STEP = 1 /\ RANGE = 1
    /\ pc = "idle"
    /\ b = 0 /\ e = 0
    /\ queue = <<>>
    /\ total = 0
    /\ exc = NoExc
    /\ log_ranges = {}
    /\ runs = 0
    /\ chain \in ChainProfiles
    /\ faults = {HTTPErrorExc, JSONDecodeExc}
    /\ counted = {}
    /\ lastCall = NoCall
    /\ nFail = 0
    /\ outcomes = <<>>
    /\ ClientIdle
    /\ DeepIdle
    /\ OtherIdle

Next ==
    \/ StartRun
    \/ RpcOk
    \/ RpcFailSplit
    \/ RpcFailRaise
    \/ FetchReturn
    \/ MainOk
    \/ MainErr
    \/ Interrupt

Spec == Init /\ [][Next]_vars

--------------------------------------------------------------------------
\* The process of logcounts_to_db.py from its first line: the configuration
\* read at import, then main().

\* DB_HOST = require_env("DB_HOST") ... DB_PASSWORD = require_env("DB_PASSWORD")
RequiredDb == {"DB_HOST", "DB_PORT", "DB_NAME", "DB_USER", "DB_PASSWORD"}

\* The names missing from the environment of a process.
MissingEnv == {{}, {"PROVIDER"}, {"DB_HOST"}, {"DB_PASSWORD", "PROVIDER"}}

\* PROVIDER of the environment, when it is there.
EnvProvider == <<"http://", "a">>

\* --provider: not given (the empty string), or an endpoint.
ArgProviders == {<<>>, <<"http://", "b">>}

\* SESSION.post("") raises before anything is sent.
MissingSchemaExc == [type |-> "MissingSchema", msg |-> [id |-> "No scheme supplied", len |-> 63]]

\* A process starts. Import: PROVIDER = os.getenv("PROVIDER", ""), then
\* require_env on each database piece, which raises when one is missing.
\* main(): --provider replaces PROVIDER when given, DB(DB_URL),
\* db.clean_provider(PROVIDER), then the first iteration of the for loop.
StartProcess ==
    /\ pc \in {"idle", "done", "aborted"}
    /\ runs < MaxRuns
    /\ runs' = runs + 1
    /\ outcomes' = <<>>
    /\ \E env \in MissingEnv, argp \in ArgProviders, rg \in RangeValues :
         LET envp == IF "PROVIDER" \in env THEN <<>> ELSE EnvProvider
             p == IF argp # <<>> THEN argp ELSE envp
         IN  IF env \cap RequiredDb # {}
             THEN /\ pc' = "aborted"
                  /\ absent' = env
                  /\ PROVIDER' = envp
                  /\ b' = 0 /\ e' = 0
                  /\ queue' = <<>>
                  /\ total' = 0
                  /\ exc' = NoExc
                  /\ counted' = {}
                  /\ lastCall' = NoCall
                  /\ nFail' = 0
                  /\ UNCHANGED <<START, END, STEP, RANGE, log_ranges, faults>>
             ELSE /\ pc' = "fetch"
                  /\ absent' = IF p = <<>> THEN {"PROVIDER"} ELSE {}
                  /\ PROVIDER' = p
                  /\ START' = 0
                  /\ END' = MaxBlock
                  /\ STEP' = MaxBlock \div 2 + 1
                  /\ RANGE' = rg
                  /\ log_ranges' = pg_clean_provider(log_ranges, p)
                  /\ faults' = IF p = <<>> THEN {MissingSchemaExc} ELSE {HTTPErrorExc}
                  /\ FreshFetch(0, WindowEnd(0, rg, MaxBlock))
    /\ UNCHANGED <<MIN_RANGE, chain, clientVars, deepVars, discVars, shallowVars, orderVars>>

\* A call that the endpoint answers: there is an endpoint.
EndpointCallOk == PROVIDER # <<>> /\ RpcOk

InitConfig ==
    /\ FetchIdle
    /\ ClientIdle
    /\ DeepIdle
    /\ OtherIdle

NextConfig ==
    \/ StartProcess
    \/ EndpointCallOk
    \/ RpcFailSplit
    \/ RpcFailRaise
    \/ FetchReturn
    \/ MainOk
    \/ MainErr

SpecConfig == InitConfig /\ [][NextConfig]_vars

--------------------------------------------------------------------------
\* Class DB driven by a free-standing client: any statements in any order,
\* from processes started with any provider string.

\* Windows the client writes rows for.
ClientWindows == {<<0, 1>>, <<2, 3>>}

\* A process with another PROVIDER takes over the table.
NewProcess ==
    /\ \E p \in Providers : PROVIDER' = p
    /\ PROVIDER' # PROVIDER
    /\ UNCHANGED <<MIN_RANGE, START, END, STEP, RANGE, pc, b, e, queue, total, exc,
                   log_ranges, runs, chain, faults, counted, lastCall, nFail, outcomes,
                   clientVars, deepVars, otherVars>>

\* db.upsert_ok(b_from, b_to, cnt)
DbUpsertOk ==
    /\ clientOps < MaxOps
    /\ \E w \in ClientWindows, cnt \in {0, MaxLogs} :
         /\ log_ranges' = upsert_ok(log_ranges, w[1], w[2], cnt)
         /\ lastOp' = [op |-> "upsert_ok", from_block |-> w[1], to_block |-> w[2],
                       provider |-> PROVIDER, cnt |-> cnt]
    /\ prevRows' = log_ranges
    /\ clientOps' = clientOps + 1
    /\ UNCHANGED <<fetchVarsButRows, deepVars, otherVars>>

\* db.upsert_err(b_from, b_to, etype, emsg)
DbUpsertErr ==
    /\ clientOps < MaxOps
    /\ \E w \in ClientWindows, ex \in faults :
         /\ log_ranges' = upsert_err(log_ranges, w[1], w[2], ex.type, ex.msg)
         /\ lastOp' = [op |-> "upsert_err", from_block |-> w[1], to_block |-> w[2],
                       provider |-> PROVIDER, etype |-> ex.type, emsg |-> ex.msg]
    /\ prevRows' = log_ranges
    /\ clientOps' = clientOps + 1
    /\ UNCHANGED <<fetchVarsButRows, deepVars, otherVars>>

\* db.clean_provider(provider)
DbCleanProvider ==
    /\ clientOps < MaxOps
    /\ \E p \in Providers :
         /\ log_ranges' = pg_clean_provider(log_ranges, p)
         /\ lastOp' = [op |-> "clean", provider |-> p]
    /\ prevRows' = log_ranges
    /\ clientOps' = clientOps + 1
    /\ UNCHANGED <<fetchVarsButRows, deepVars, otherVars>>

InitStore ==
    /\ PROVIDER \in Providers
    /\ MIN_RANGE = 1
    /\ START = 0 /\ END = MaxBlock /\ STEP = 1 /\ RANGE = 1
    /\ pc = "idle"
    /\ b = 0 /\ e = 0
    /\ queue = <<>>
    /\ total = 0
    /\ exc = NoExc
    /\ log_ranges = {}
    /\ runs = 0
    /\ chain \in ChainProfiles
    /\ faults = {HTTPErrorExc, BadRpcExc}
    /\ counted = {}
    /\ lastCall = NoCall
    /\ nFail = 0
    /\ outcomes = <<>>
    /\ ClientIdle
    /\ DeepIdle
    /\ OtherIdle

NextStore == NewProcess \/ DbUpsertOk \/ DbUpsertErr \/ DbCleanProvider

SpecStore == InitStore /\ [][NextStore]_vars

--------------------------------------------------------------------------
\* narrow_block.py: the deep localizer.

REF_PROVIDER == <<"http://", "ref">>

TEST_PROVIDER == <<"http://", "test">>

\* What TEST_PROVIDER serves: the reference chain, or one that lost the log
\* of block 0, or one with an extra log in block 2.
TestChainProfiles(c) ==
    { c, [c EXCEPT ![0] = 0], [c EXCEPT ![2] = c[2] + 1] }

\* A row of rpc_discrepancies (recorded_at, a wall-clock time, is left out).
DiscRow(id, b_from, b_to, diff, provider) ==
    [id |-> id, from_block |-> b_from, to_block |-> b_to, discrepancy_count |-> diff,
     provider |-> provider]

\* The sequences that hold every row of the set R once, in ascending
\* from_block order: what ORDER BY "from_block" ASC can deliver.
OrderedByFrom(R) ==
    LET n == Cardinality(R)
    IN  { s \in [1..n -> R] :
            /\ \A i, j \in 1..n : i # j => s[i] # s[j]
            /\ \A i \in 1..(n - 1) : s[i].from_block <= s[i + 1].from_block }

\* read_discrepancies_from_pg with a provider: the tuples (from_block,
\* to_block, discrepancy_count) of the provider's rows.
read_discrepancies_from_pg(table, provider) ==
    LET R == {table[i] : i \in {j \in DOMAIN table : table[j].provider = provider}}
    IN  { [i \in DOMAIN s |-> <<s[i].from_block, s[i].to_block, s[i].discrepancy_count>>] :
            s \in OrderedByFrom(R) }

\* The ranges found in rpc_discrepancies for TEST_PROVIDER, as <<from_block,
\* to_block, discrepancy_count>>.
StoredRangeLists ==
    { <<>>,
      << <<0, 2, 1>> >>,
      << <<0, 1, 1>>, <<2, MaxBlock - 1, 3>> >> }

\* get_log_count: the number of logs, or -1 when the call fails.
get_log_count(c, start_block, end_block, failed) ==
    IF failed THEN -1 ELSE ChainCount(c, start_block, end_block)

\* The for statement over ranges moves to the next range, or main() returns.
DeepNextRange ==
    IF ri < Len(ranges)
    THEN /\ ri' = ri + 1
         /\ dpc' = "range"
    ELSE /\ ri' = ri
         /\ dpc' = "end"

\* ranges = list(read_discrepancies_from_pg(...)), and the two early returns.
DeepStart ==
    /\ dpc = "start"
    /\ \E rs \in read_discrepancies_from_pg(rpc_discrepancies, TEST_PROVIDER),
          dbError \in BOOLEAN :
         IF dbError \/ rs = <<>>
         THEN /\ dpc' = "end"
              /\ UNCHANGED <<ranges, ri>>
         ELSE /\ ranges' = rs
              /\ ri' = 1
              /\ dpc' = "range"
    /\ \E tc \in TestChainProfiles(refChain) : testChain' = tc
    /\ UNCHANGED <<n_test, n_ref, blk, reported, refChain, aggCalls, blockCalls>>
    /\ UNCHANGED <<fetchVars, clientVars, otherVars>>

DeepAggregateVsStored ==
    /\ dpc = "range"
    /\ \E ft \in BOOLEAN, fr \in BOOLEAN :
         LET rb == ranges[ri][1]
             re == ranges[ri][2]
             nt == get_log_count(testChain, rb, re, ft)
             nr == get_log_count(refChain, rb, re, fr)
         IN  /\ n_test' = nt
             /\ n_ref' = nr
             /\ aggCalls' = 2
             /\ blockCalls' = {}
             /\ reported' = {}
             /\ IF nt # ranges[ri][3]
                THEN /\ dpc' = "narrow"
                     /\ blk' = rb
                     /\ ri' = ri
                ELSE /\ DeepNextRange
                     /\ blk' = blk
    /\ UNCHANGED <<ranges, refChain, testChain>>
    /\ UNCHANGED <<fetchVars, clientVars, otherVars>>

\* The two aggregate calls of a range and the comparison n_test != n_ref.
DeepAggregate ==
    /\ dpc = "range"
    /\ \E ft \in BOOLEAN, fr \in BOOLEAN :
         LET rb == ranges[ri][1]
             re == ranges[ri][2]
             nt == get_log_count(testChain, rb, re, ft)
             nr == get_log_count(refChain, rb, re, fr)
         IN  /\ n_test' = nt
             /\ n_ref' = nr
             /\ aggCalls' = 2
             /\ blockCalls' = {}
             /\ reported' = {}
             /\ IF nt # nr
                THEN /\ dpc' = "narrow"
                     /\ blk' = rb
                     /\ ri' = ri
                ELSE /\ DeepNextRange
                     /\ blk' = blk
    /\ UNCHANGED <<ranges, refChain, testChain>>
    /\ UNCHANGED <<fetchVars, clientVars, otherVars>>

\* One iteration of for blk in range(b, e + 1).
DeepBlock ==
    /\ dpc = "narrow"
    /\ \E fr \in BOOLEAN, ft \in BOOLEAN :
         LET c_ref == get_log_count(refChain, blk, blk, fr)
             c_test == get_log_count(testChain, blk, blk, ft)
         IN  /\ reported' = IF c_ref # c_test THEN reported \cup {blk} ELSE reported
             /\ blockCalls' = blockCalls \cup {<<"ref", blk, fr>>, <<"test", blk, ft>>}
    /\ IF blk < ranges[ri][2]
       THEN /\ blk' = blk + 1
            /\ dpc' = "narrow"
       ELSE /\ blk' = blk
            /\ dpc' = "scanned"
    /\ UNCHANGED <<ranges, ri, n_test, n_ref, refChain, testChain, aggCalls>>
    /\ UNCHANGED <<fetchVars, clientVars, otherVars>>

\* The final progress line of a narrowed range, then the next range.
DeepScanned ==
    /\ dpc = "scanned"
    /\ DeepNextRange
    /\ UNCHANGED <<ranges, n_test, n_ref, blk, reported, refChain, testChain, aggCalls,
                   blockCalls>>
    /\ UNCHANGED <<fetchVars, clientVars, otherVars>>

\* Table rpc_discrepancies holding the ranges rs for TEST_PROVIDER, behind a
\* row of another provider.
DiscTable(rs) ==
    <<DiscRow(1, 0, MaxBlock, 2, REF_PROVIDER)>>
    \o [i \in 1..Len(rs) |-> DiscRow(i + 1, rs[i][1], rs[i][2], rs[i][3], TEST_PROVIDER)]

InitDeep ==
    /\ FetchIdle
    /\ ClientIdle
    /\ DeepIdle
    /\ ShallowIdle
    /\ OrderIdle
    /\ ConfigIdle
    /\ \E rs \in StoredRangeLists : rpc_discrepancies = DiscTable(rs)
    /\ discBefore = rpc_discrepancies

NextDeep == DeepStart \/ DeepAggregate \/ DeepBlock \/ DeepScanned

SpecDeep == InitDeep /\ [][NextDeep]_vars

--------------------------------------------------------------------------
\* verify_logs.py: the window selection and the shallow localizer.

Abs(x) == IF x < 0 THEN -x ELSE x

\* Python's `x or y` on an optional int: None and 0 are both falsy.
PyOr(x, y) == IF x = None \/ x = <<0>> THEN y ELSE x

\* REQ_FROM_BLOCK = args.from_block or (int(ENV_FROM_BLOCK) if ENV_FROM_BLOCK else None)
REQ_FROM_BLOCK == PyOr(args_from_block, ENV_FROM_BLOCK)

\* REQ_TO_BLOCK = args.to_block or (int(ENV_TO_BLOCK) if ENV_TO_BLOCK else None)
REQ_TO_BLOCK == PyOr(args_to_block, ENV_TO_BLOCK)

\* A row of log_ranges (updated_at is left out).
LogRow(b_from, b_to, cnt, status, error_type, error_msg, provider) ==
    [from_block |-> b_from, to_block |-> b_to, cnt |-> cnt, status |-> status,
     error_type |-> error_type, error_msg |-> error_msg,
     provider |-> provider, contract |-> CONTRACT, topic |-> TOPIC]

\* Whether int(n_old) raises on the row: cnt is NULL.
CntIsNull(r) == IsNull(r.cnt)

\* read_ranges_from_pg: every row of the table as (from_block, to_block,
\* cnt), in ascending from_block order.
read_ranges_from_pg(table) ==
    { [i \in DOMAIN s |-> <<s[i].from_block, s[i].to_block, s[i].cnt>>] :
        s \in OrderedByFrom(table) }

RECURSIVE MinByDistance(_, _, _, _)
\* min(candidates, key=lambda x: abs(x - target)) from position i on, best
\* being the minimum so far: a later candidate wins only when strictly closer.
MinByDistance(target, candidates, i, best) ==
    IF i > Len(candidates) THEN best
    ELSE MinByDistance(target, candidates, i + 1,
                       IF Abs(candidates[i] - target) < Abs(best - target)
                       THEN candidates[i] ELSE best)

RECURSIVE MinByDistanceLast(_, _, _, _)
MinByDistanceLast(target, candidates, i, best) ==
    IF i > Len(candidates) THEN best
    ELSE MinByDistanceLast(target, candidates, i + 1,
                           IF Abs(candidates[i] - target) <= Abs(best - target)
                           THEN candidates[i] ELSE best)

closestLast(target, candidates) == MinByDistanceLast(target, candidates, 2, candidates[1])

\* closest(target, candidates) of choose_window
closest(target, candidates) == MinByDistance(target, candidates, 2, candidates[1])

from_values(rs) == [i \in DOMAIN rs |-> rs[i][1]]

to_values(rs) == [i \in DOMAIN rs |-> rs[i][2]]

\* snapped_from of choose_window, for a non-empty list.
snapped_from(rs, req_from) ==
    IF req_from # None THEN closest(req_from[1], from_values(rs)) ELSE from_values(rs)[1]

\* snapped_to of choose_window, for a non-empty list.
snapped_to(rs, req_to) ==
    IF req_to # None THEN closest(req_to[1], to_values(rs)) ELSE to_values(rs)[Len(rs)]

WindowFilterFromOnly(rs, lo, hi) ==
    LET Inside(r) == r[1] >= lo /\ r[1] <= hi
    IN  SelectSeq(rs, Inside)

\* window = [(b, e, n) for (b, e, n) in ranges if (b >= lo and e <= hi)]
WindowFilter(rs, lo, hi) ==
    LET Inside(r) == r[1] >= lo /\ r[2] <= hi
    IN  SelectSeq(rs, Inside)

\* choose_window(ranges, req_from, req_to)
choose_window(rs, req_from, req_to) ==
    IF rs = <<>> THEN <<>>
    ELSE LET sf == snapped_from(rs, req_from)
             st == snapped_to(rs, req_to)
             lo == Min(sf, st)
             hi == IF sf >= st THEN sf ELSE st
         IN  WindowFilter(rs, lo, hi)

\* insert_discrepancy: one more row, under the next id.
insert_discrepancy(table, b_from, b_to, diff, provider) ==
    Append(table, DiscRow(Len(table) + 1, b_from, b_to, diff, provider))

\* Tables log_ranges as runs of logcounts_to_db.py leave them, the chain c
\* being what the test provider serves now: tiled windows, overlapping
\* windows, single-block windows, windows of two providers, and a table
\* with an ERROR row.  Some counts are those of c, some are one higher.
StoredTables(c) ==
    LET ok(f, t, d, p) == LogRow(f, t, ChainCount(c, f, t) + d, "OK", NoValue, NoValue, p)
        err(f, t, p) == LogRow(f, t, NoValue, "ERROR", HTTPErrorExc.type,
                               Truncate(HTTPErrorExc.msg, MsgCap), p)
    IN  { {},
          {ok(0, 1, 0, TEST_PROVIDER), ok(2, 3, 1, TEST_PROVIDER), ok(4, MaxBlock, 0, TEST_PROVIDER)},
          {ok(0, 1, 0, TEST_PROVIDER), ok(1, MaxBlock, 1, TEST_PROVIDER), ok(2, 3, 0, TEST_PROVIDER)},
          {ok(1, 1, 1, TEST_PROVIDER), ok(3, 3, 0, TEST_PROVIDER), ok(5, 5, 0, TEST_PROVIDER)},
          {ok(0, 1, 0, TEST_PROVIDER), ok(0, 1, 1, REF_PROVIDER), ok(2, 3, 1, TEST_PROVIDER)},
          {ok(0, 1, 0, TEST_PROVIDER), err(2, 3, TEST_PROVIDER)} }

\* Values of --from_block / --to_block.
ArgValues == {None, <<0>>, <<2>>, <<MaxBlock - 1>>}

\* Values of FROM_BLOCK / TO_BLOCK in the environment.
EnvValues == {None, <<3>>}

\* A process starts: arguments and environment into globals, the ranges are
\* read and the window is chosen; a failing read ends main().
VStart ==
    /\ vpc \in {"start", "end"}
    /\ vruns < MaxRuns
    /\ vruns' = vruns + 1
    /\ \E af \in ArgValues, at \in ArgValues, ef \in EnvValues, et \in EnvValues :
         /\ args_from_block' = af
         /\ args_to_block' = at
         /\ ENV_FROM_BLOCK' = ef
         /\ ENV_TO_BLOCK' = et
    /\ IF \E r \in log_ranges : CntIsNull(r)
       THEN /\ all_ranges' = <<>>
            /\ selected' = <<>>
       ELSE \E rs \in read_ranges_from_pg(log_ranges) :
              /\ all_ranges' = rs
              /\ selected' = IF REQ_FROM_BLOCK' # None \/ REQ_TO_BLOCK' # None
                             THEN choose_window(rs, REQ_FROM_BLOCK', REQ_TO_BLOCK')
                             ELSE rs
    /\ IF selected' # <<>>
       THEN si' = 1 /\ vpc' = "compare"
       ELSE si' = 0 /\ vpc' = "end"
    /\ discBefore' = rpc_discrepancies
    /\ lastCmp' = NoCmp
    /\ UNCHANGED <<rpc_discrepancies, orderVars, configVars, fetchVars, clientVars, deepVars>>

VCompareNoGuard ==
    /\ vpc = "compare"
    /\ \E failed \in BOOLEAN :
         LET rb == selected[si][1]
             re == selected[si][2]
             n_old == selected[si][3]
             n_new == get_log_count(chain, rb, re, failed)
         IN  /\ rpc_discrepancies' =
                  IF n_new # n_old
                  THEN insert_discrepancy(rpc_discrepancies, rb, re, n_new, PROVIDER)
                  ELSE rpc_discrepancies
             /\ lastCmp' = [b |-> rb, e |-> re, n_old |-> n_old, n_new |-> n_new,
                            before |-> rpc_discrepancies]
    /\ IF si < Len(selected)
       THEN si' = si + 1 /\ vpc' = "compare"
       ELSE si' = si /\ vpc' = "end"
    /\ UNCHANGED <<discBefore, args_from_block, args_to_block, ENV_FROM_BLOCK, ENV_TO_BLOCK,
                   all_ranges, selected, vruns, orderVars, configVars, fetchVars, clientVars, deepVars>>

VCompareAlways ==
    /\ vpc = "compare"
    /\ \E failed \in BOOLEAN :
         LET rb == selected[si][1]
             re == selected[si][2]
             n_old == selected[si][3]
             n_new == get_log_count(chain, rb, re, failed)
         IN  /\ rpc_discrepancies' =
                  IF n_new >= 0 /\ n_old >= 0
                  THEN insert_discrepancy(rpc_discrepancies, rb, re, n_new, PROVIDER)
                  ELSE rpc_discrepancies
             /\ lastCmp' = [b |-> rb, e |-> re, n_old |-> n_old, n_new |-> n_new,
                            before |-> rpc_discrepancies]
    /\ IF si < Len(selected)
       THEN si' = si + 1 /\ vpc' = "compare"
       ELSE si' = si /\ vpc' = "end"
    /\ UNCHANGED <<discBefore, args_from_block, args_to_block, ENV_FROM_BLOCK, ENV_TO_BLOCK,
                   all_ranges, selected, vruns, orderVars, configVars, fetchVars, clientVars, deepVars>>

\* One iteration of for b, e, n_old in selected.
VCompare ==
    /\ vpc = "compare"
    /\ \E failed \in BOOLEAN :
         LET rb == selected[si][1]
             re == selected[si][2]
             n_old == selected[si][3]
             n_new == get_log_count(chain, rb, re, failed)
         IN  /\ rpc_discrepancies' =
                  IF n_new # n_old /\ n_new >= 0 /\ n_old >= 0
                  THEN insert_discrepancy(rpc_discrepancies, rb, re, n_new, PROVIDER)
                  ELSE rpc_discrepancies
             /\ lastCmp' = [b |-> rb, e |-> re, n_old |-> n_old, n_new |-> n_new,
                            before |-> rpc_discrepancies]
    /\ IF si < Len(selected)
       THEN si' = si + 1 /\ vpc' = "compare"
       ELSE si' = si /\ vpc' = "end"
    /\ UNCHANGED <<discBefore, args_from_block, args_to_block, ENV_FROM_BLOCK, ENV_TO_BLOCK,
                   all_ranges, selected, vruns, orderVars, configVars, fetchVars, clientVars, deepVars>>

InitShallow ==
    /\ PROVIDER = TEST_PROVIDER
    /\ MIN_RANGE = 1
    /\ START = 0 /\ END = MaxBlock /\ STEP = 1 /\ RANGE = 1
    /\ pc = "idle"
    /\ b = 0 /\ e = 0
    /\ queue = <<>>
    /\ total = 0
    /\ exc = NoExc
    /\ chain \in ChainProfiles
    /\ log_ranges \in StoredTables(chain)
    /\ runs = 0
    /\ faults = {}
    /\ counted = {}
    /\ lastCall = NoCall
    /\ nFail = 0
    /\ outcomes = <<>>
    /\ ClientIdle
    /\ DeepIdle
    /\ OtherIdle

NextShallow == VStart \/ VCompare

SpecShallow == InitShallow /\ [][NextShallow]_vars

--------------------------------------------------------------------------
\* Properties of get_log_count_with_splitting.

RECURSIVE SumCounts(_)
\* Sum of the provider's counts over a set of sub-ranges.
SumCounts(S) ==
    IF S = {} THEN 0
    ELSE LET r == CHOOSE x \in S : TRUE
         IN  rpc_logs(r[1], r[2]) + SumCounts(S \ {r})

\* Number of counted or pending sub-ranges that hold block blk.
Covering(x) ==
    Cardinality({r \in counted : x \in BlocksOf(r)})
    + Cardinality({i \in 1..Len(queue) : x \in BlocksOf(queue[i])})

\* C1: while the loop of get_log_count_with_splitting runs, and when it
\* returns, the counted sub-ranges and the pending ones lie inside [b, e] and
\* every block of [b, e] is in exactly one of them; the running total is the
\* sum of the counts of the counted sub-ranges, so a returned total sums
\* counts over sub-ranges that cover each block exactly once.
C1_Partition ==
    pc \in {"fetch", "returned"} =>
        /\ \A r \in counted : b <= r[1] /\ r[2] <= e
        /\ \A i \in 1..Len(queue) : b <= queue[i][1] /\ queue[i][2] <= e
        /\ \A x \in b..e : Covering(x) = 1
        /\ total = SumCounts(counted)
        /\ pc = "returned" => (queue = <<>> /\ \A x \in b..e : \E r \in counted : x \in BlocksOf(r))

\* A fetch that returned after failures and splits, from several sub-ranges.
C1_Witness ==
    /\ pc = "returned"
    /\ nFail >= 2
    /\ Cardinality(counted) >= 3
    /\ total > 0

\* C2: when no _rpc_logs call failed, the returned total is the value of
\* one call over the whole window [b, e].
C2_NoFailureTotal ==
    (pc = "returned" /\ nFail = 0) => total = rpc_logs(b, e)

\* A fetch of a window wider than MIN_RANGE that returned without failures.
C2_Witness ==
    /\ pc = "returned"
    /\ nFail = 0
    /\ Width(b, e) > MIN_RANGE
    /\ total > 0

\* C3: once _rpc_logs has failed on a sub-range no wider than MIN_RANGE the
\* function has raised: no total is returned, the pending sub-ranges stay
\* pending and no further _rpc_logs call can be issued.
C3_RaiseStops ==
    (lastCall.failed /\ Width(lastCall.f, lastCall.t) <= MIN_RANGE) =>
        /\ pc = "raised"
        /\ exc \in RpcExceptions
        /\ ~ENABLED RpcCall

\* A raise on a narrow sub-range with counted and pending sub-ranges left behind.
C3_Witness ==
    /\ pc = "raised"
    /\ lastCall.failed
    /\ Width(lastCall.f, lastCall.t) <= MIN_RANGE
    /\ exc.type \in CaughtTypes
    /\ queue # <<>>
    /\ total > 0

RECURSIVE SplitDepth(_, _, _, _)
\* The number of successive splits that lead from the sub-range (wf, wt) to
\* the sub-range (f, t); -1 when no sequence of splits does.
SplitDepth(wf, wt, f, t) ==
    IF wf = f /\ wt = t THEN 0
    ELSE IF wf >= wt THEN -1
    ELSE LET mid == SplitMid(wf, Width(wf, wt))
             sub == IF t <= mid THEN SplitDepth(wf, mid, f, t)
                    ELSE IF f > mid THEN SplitDepth(mid + 1, wt, f, t)
                    ELSE -1
         IN  IF sub = -1 THEN -1 ELSE sub + 1

RECURSIVE Pow2(_)
Pow2(k) == IF k = 0 THEN 1 ELSE 2 * Pow2(k - 1)

\* ceil(log2(width / m)) for width >= 1 and m >= 1, and 0 when width <= m.
CeilLog2Ratio(width, m) ==
    CHOOSE k \in 0..width :
        /\ m * Pow2(k) >= width
        /\ \A j \in 0..(k - 1) : m * Pow2(j) < width

\* C16: every sub-range on the work list comes from the window (b, e) by at
\* most ceil(log2(width / MIN_RANGE)) successive splits; a window no wider
\* than MIN_RANGE is never split.
C16_DepthBound ==
    pc \in {"fetch", "returned", "raised"} =>
        /\ \A i \in 1..Len(queue) :
             LET d == SplitDepth(b, e, queue[i][1], queue[i][2])
             IN  0 <= d /\ d <= CeilLog2Ratio(Width(b, e), MIN_RANGE)
        /\ Width(b, e) <= MIN_RANGE => \A i \in 1..Len(queue) : queue[i] = <<b, e>>

\* A sub-range on the work list that took as many splits as the bound
\* allows, the bound being 2 or more.
C16_Witness ==
    /\ pc = "fetch"
    /\ CeilLog2Ratio(Width(b, e), MIN_RANGE) >= 2
    /\ \E i \in 1..Len(queue) :
         SplitDepth(b, e, queue[i][1], queue[i][2]) = CeilLog2Ratio(Width(b, e), MIN_RANGE)

\* The last _rpc_logs call failed and its sub-range was split: the two
\* halves are the last two entries of the work list, the low half last.
JustSplit ==
    /\ pc = "fetch"
    /\ lastCall.failed

LowHalf == queue[Len(queue)]

HighHalf == queue[Len(queue) - 1]

\* The halves are non-empty, adjacent and cover the split sub-range (f, t),
\* the low half ending at mid = f + (width // 2) - 1.
HalvesCover ==
    /\ Len(queue) >= 2
    /\ LowHalf[1] = lastCall.f
    /\ LowHalf[2] = lastCall.f + (Width(lastCall.f, lastCall.t) \div 2) - 1
    /\ HighHalf[1] = LowHalf[2] + 1
    /\ HighHalf[2] = lastCall.t
    /\ LowHalf[1] <= LowHalf[2]
    /\ HighHalf[1] <= HighHalf[2]

\* C17 as stated: the halves are non-empty, adjacent and cover (f, t), and
\* on an odd width the low half is the one block wider.
C17_LowHalfWider ==
    JustSplit =>
        /\ HalvesCover
        /\ Width(lastCall.f, lastCall.t) % 2 = 1 =>
             Width(LowHalf[1], LowHalf[2]) = Width(HighHalf[1], HighHalf[2]) + 1

\* C17 amended: the halves are non-empty, adjacent and cover (f, t); on an
\* odd width the high half is the one block wider, on an even width the
\* halves are equally wide.
C17_HighHalfWider ==
    JustSplit =>
        /\ HalvesCover
        /\ Width(HighHalf[1], HighHalf[2]) =
             Width(LowHalf[1], LowHalf[2]) + (Width(lastCall.f, lastCall.t) % 2)

\* A split of a sub-range of odd width 5 or more.
C17_Witness ==
    /\ JustSplit
    /\ Width(lastCall.f, lastCall.t) % 2 = 1
    /\ Width(lastCall.f, lastCall.t) >= 5
    /\ Len(queue) >= 2

\* C15: against a provider whose outcome on a sub-range is fixed, a loop
\* that takes the pending sub-ranges in any order returns only the total the
\* loop as coded returns, and raises only where the loop as coded raises too;
\* the sub-range it raises on need not be the same.
C15_OrderIndependent ==
    LET coded == get_log_count_with_splitting(b, e)
    IN  /\ pc = "returned" => (coded.kind = "returned" /\ coded.total = total)
        /\ pc = "raised" => (coded.kind = "raised" /\ <<lastCall.f, lastCall.t>> \in failing)

\* A total returned after two failures and splits, from sub-ranges taken in
\* another order than the code's.
C15_Witness ==
    /\ pc = "returned"
    /\ tookOther
    /\ nFail >= 2
    /\ Cardinality(counted) >= 3
    /\ total > 0

\* Another order meets another failing sub-range first.
OtherFailureFirst ==
    /\ pc = "raised"
    /\ tookOther
    /\ <<lastCall.f, lastCall.t>> #
         <<get_log_count_with_splitting(b, e).f, get_log_count_with_splitting(b, e).t>>

\* C23: a failed _rpc_logs call on a sub-range wider than MIN_RANGE never
\* ends the fetch, whatever the failure: the loop goes on, the two halves of
\* the sub-range on its work list.
C23_FailureAlwaysSplits ==
    (lastCall.failed /\ Width(lastCall.f, lastCall.t) > MIN_RANGE) =>
        /\ pc = "fetch"
        /\ Len(queue) >= 2
        /\ <<HighHalf, LowHalf>> = SplitHalves(lastCall.f, lastCall.t)

\* get_log_count_with_splitting as a running loop: an iteration that can be
\* taken is taken (every call returns or raises within the request timeout).
SpecSplitFair == SpecSplit /\ WF_vars(NextSplit)

\* The _rpc_logs calls the function has made so far.
CallsMade == nFail + Cardinality(counted)

RECURSIVE QueueBudget(_)
\* The calls a work list can still cost: a sub-range of width w costs at
\* most 2w - 1 calls (itself and, when it fails, its two halves).
QueueBudget(q) ==
    IF q = <<>> THEN 0
    ELSE 2 * Width(Head(q)[1], Head(q)[2]) - 1 + QueueBudget(Tail(q))

\* C27: get_log_count_with_splitting terminates after finitely many calls,
\* whatever fails: every sub-range on the work list is non-empty, the calls
\* made and the calls the work list can still cost never exceed 2w - 1 for a
\* window of width w, and every iteration of the loop either leaves the
\* function or lowers what the work list can still cost (a split replaces a
\* sub-range by two strictly narrower ones), and the running loop ends: the
\* function returns or raises.
C27_Terminates ==
    /\ [](/\ \A i \in DOMAIN queue : queue[i][1] <= queue[i][2]
          /\ CallsMade + QueueBudget(queue) <= 2 * Width(b, e) - 1)
    /\ [][pc = "fetch" =>
            \/ pc' # "fetch"
            \/ QueueBudget(queue') < QueueBudget(queue)]_vars
    /\ <>(pc \in {"returned", "raised"})

\* A fetch that returned after the most calls its window allows, two of
\* them failed.
C27_Witness ==
    /\ pc = "returned"
    /\ nFail >= 2
    /\ CallsMade = 2 * Width(b, e) - 1

--------------------------------------------------------------------------
\* Properties of main() of logcounts_to_db.py and of the table log_ranges.

\* What main() prints and stores for a failed window: the window itself and
\* the exception's class name and text.
FailureReport ==
    [from_block |-> b, to_block |-> e, etype |-> exc.type, emsg |-> exc.msg]

\* C4: the failure outcome of a window names the sub-range on which the last
\* _rpc_logs call failed.
C4_ReportsFailingSubrange ==
    pc = "raised" =>
        <<FailureReport.from_block, FailureReport.to_block>> = <<lastCall.f, lastCall.t>>

\* The chunk windows of range(START, END + 1, STEP).
ChunkWindows ==
    { <<x, WindowEnd(x, RANGE, END)>> : x \in {y \in START..END : (y - START) % STEP = 0} }

\* The chunk windows whose iteration of the for loop is over.
ProcessedWindows ==
    IF pc = "done" THEN ChunkWindows
    ELSE IF pc \in {"fetch", "returned", "raised"} THEN {w \in ChunkWindows : w[1] < b}
    ELSE {}

RowsOfKey(rows, k) == {r \in rows : KeyOf(r) = k}

\* Whether row r is what outcome o of a window is stored as.
RowReflects(r, o) ==
    IF o.kind = "ok"
    THEN /\ r.status = "OK"
         /\ r.cnt = o.cnt
         /\ r.error_type = NoValue
         /\ r.error_msg = NoValue
    ELSE /\ r.status = "ERROR"
         /\ r.cnt = NoValue
         /\ r.error_type = o.exc.type
         /\ r.error_msg.id = o.exc.msg.id
         /\ r.error_msg.len = Min(o.exc.msg.len, MsgCap)

\* C5: every chunk window whose iteration is over has exactly one outcome
\* and exactly one row under (b, e, PROVIDER): an OK row with the total, or
\* an ERROR row with the exception's type and its message as upsert_err
\* stores it (its first 900 characters); when the run is done this holds of
\* every chunk window, failed windows or not.
C5_OneRowPerWindow ==
    \A w \in ProcessedWindows :
        LET os == {i \in 1..Len(outcomes) : outcomes[i].b = w[1] /\ outcomes[i].e = w[2]}
            rs == RowsOfKey(log_ranges, <<w[1], w[2], PROVIDER>>)
        IN  /\ Cardinality(os) = 1
            /\ Cardinality(rs) = 1
            /\ \A i \in os : \A r \in rs : RowReflects(r, outcomes[i])

\* A finished scan whose first window failed and whose second one succeeded.
C5_Witness ==
    /\ pc = "done"
    /\ Len(outcomes) >= 2
    /\ outcomes[1].kind = "err"
    /\ outcomes[1].exc.msg.len > MsgCap
    /\ outcomes[2].kind = "ok"
    /\ Cardinality(ChunkWindows) = Len(outcomes)

\* C6: a run started after an interrupted one, with the same provider string,
\* removes no row: every key of log_ranges is still a key after the step.
C6_RerunKeepsRows ==
    [][(pc = "idle" /\ runs >= 1 /\ PROVIDER' = PROVIDER) =>
           \A r \in log_ranges : RowsOfKey(log_ranges', KeyOf(r)) # {}]_vars

\* Whether the last statement of the client was an upsert.
LastOpIsUpsert == lastOp.op \in {"upsert_ok", "upsert_err"}

LastOpKey == <<lastOp.from_block, lastOp.to_block, lastOp.provider>>

\* C7: after an upsert_ok / upsert_err the table holds at most one row per
\* key; the row of the written key holds the values of this call alone (OK:
\* the count, no error fields; ERROR: the error fields, no count); the rows
\* of the other keys are the ones from before the call.
C7_LastWriteWins ==
    /\ \A r1, r2 \in log_ranges : KeyOf(r1) = KeyOf(r2) => r1 = r2
    /\ LastOpIsUpsert =>
        /\ Cardinality(RowsOfKey(log_ranges, LastOpKey)) = 1
        /\ \A r \in RowsOfKey(log_ranges, LastOpKey) :
             IF lastOp.op = "upsert_ok"
             THEN r.status = "OK" /\ r.cnt = lastOp.cnt
                  /\ r.error_type = NoValue /\ r.error_msg = NoValue
             ELSE r.status = "ERROR" /\ r.cnt = NoValue
                  /\ r.error_type = lastOp.etype
                  /\ r.error_msg = Truncate(lastOp.emsg, MsgCap)
        /\ {r \in log_ranges : KeyOf(r) # LastOpKey} = {r \in prevRows : KeyOf(r) # LastOpKey}

\* An OK write over an ERROR row of the same key, with a row of the same
\* window under another provider string beside it.
C7_Witness ==
    /\ lastOp.op = "upsert_ok"
    /\ \E r \in RowsOfKey(prevRows, LastOpKey) : r.status = "ERROR"
    /\ \E r \in log_ranges :
         /\ r.from_block = lastOp.from_block
         /\ r.to_block = lastOp.to_block
         /\ r.provider # lastOp.provider

\* C8: clean_provider(p) removes exactly the rows whose provider column
\* canonicalizes to the canonical form of p.
C8_CleanByIdentity ==
    lastOp.op = "clean" =>
        log_ranges = {r \in prevRows :
                        normalize_provider_base(r.provider)
                            # normalize_provider_base(lastOp.provider)}

\* C9: the table holds at most one row per (from_block, to_block, canonical
\* provider identity).
C9_OneRowPerIdentity ==
    \A r1, r2 \in log_ranges :
        ( /\ r1.from_block = r2.from_block
          /\ r1.to_block = r2.to_block
          /\ normalize_provider_base(r1.provider) = normalize_provider_base(r2.provider) )
        => r1 = r2

\* The scan is over and its last window, twice as wide as MIN_RANGE, was
\* fetched with one failure, on the window itself, and a count for each half
\* (as [0, 999] with minimum width 500, failing once and then split).
SplitOnceWindow ==
    /\ pc = "done"
    /\ outcomes # <<>>
    /\ Last(outcomes).kind = "ok"
    /\ Last(outcomes).b = b /\ Last(outcomes).e = e
    /\ Width(b, e) = 2 * MIN_RANGE
    /\ nFail = 1

\* OK rows of the current provider string for ranges inside the window [b, e].
OkRowsInWindow ==
    {r \in log_ranges : /\ r.provider = PROVIDER
                        /\ r.status = "OK"
                        /\ b <= r.from_block /\ r.to_block <= e}

\* The sum of the counts of the two halves of the window [b, e].
HalvesTotal ==
    rpc_logs(b, b + MIN_RANGE - 1) + rpc_logs(b + MIN_RANGE, e)

\* C14 as stated: the fetch of such a window yields the sum of the counts of
\* its two halves and two OK rows are stored for it.
C14_TwoOkRows ==
    SplitOnceWindow =>
        /\ total = HalvesTotal
        /\ Cardinality(OkRowsInWindow) = 2

\* C14 amended: the fetch of such a window yields the sum of the counts of
\* its two halves, and one OK row is stored for it: the row of the window
\* itself, holding the total.
C14_OneOkRow ==
    SplitOnceWindow =>
        /\ total = HalvesTotal
        /\ Last(outcomes).cnt = total
        /\ OkRowsInWindow = { [from_block |-> b, to_block |-> e, cnt |-> total,
                               status |-> "OK", error_type |-> NoValue, error_msg |-> NoValue,
                               provider |-> PROVIDER, contract |-> CONTRACT, topic |-> TOPIC] }

\* Such a window, fetched from two sub-ranges, with logs in it.
C14_Witness ==
    /\ SplitOnceWindow
    /\ Cardinality(counted) = 2
    /\ total > 0

\* C21: a process started without a required value (a database connection
\* piece, or the provider endpoint) aborts at startup: it has made no
\* _rpc_logs call and processed no window, and the table holds no row that
\* such a process wrote (a row whose provider is the empty string).
C21_AbortAtStartup ==
    /\ absent # {} =>
         /\ pc = "aborted"
         /\ lastCall = NoCall
         /\ outcomes = <<>>
    /\ \A r \in log_ranges : r.provider # <<>>

\* C22: every row of log_ranges has status OK or ERROR; an OK row holds a
\* count, which is a natural number, and no error type or message; an ERROR
\* row holds an error type and a message and no count.
C22_RowShape ==
    \A r \in log_ranges :
        /\ r.status \in {"OK", "ERROR"}
        /\ r.status = "OK" =>
             /\ ~IsNull(r.cnt)
             /\ r.cnt \in Nat
             /\ IsNull(r.error_type)
             /\ IsNull(r.error_msg)
        /\ r.status = "ERROR" =>
             /\ IsNull(r.cnt)
             /\ ~IsNull(r.error_type)
             /\ ~IsNull(r.error_msg)

\* A table with an OK row of a window with logs and an ERROR row.
C22_Witness ==
    /\ \E r \in log_ranges : r.status = "OK" /\ r.cnt > 0
    /\ \E r \in log_ranges : r.status = "ERROR"

--------------------------------------------------------------------------
\* Properties of the deep localizer.

\* Blocks of the range at hand.
RangeBlocks == ranges[ri][1]..ranges[ri][2]

\* C10: when the block-level scan of a range is over, both providers were
\* queried for every block of the range and the blocks reported are exactly
\* the blocks in which the reference chain and the test chain hold different
\* numbers of logs.
C10_ExactDifferingBlocks ==
    dpc = "scanned" =>
        /\ \A x \in RangeBlocks :
             /\ \E c \in blockCalls : c[1] = "ref" /\ c[2] = x
             /\ \E c \in blockCalls : c[1] = "test" /\ c[2] = x
        /\ reported = {x \in RangeBlocks : refChain[x] # testChain[x]}

\* C11: per-block get_log_count calls of a range exist only when the two
\* aggregate calls of that range were made and returned unequal values; a
\* range whose two aggregate values are equal has cost its two aggregate
\* calls and no per-block call, and main() has moved on from it.
C11_NarrowOnlyOnMismatch ==
    /\ dpc \in {"narrow", "scanned"} => (aggCalls = 2 /\ n_test # n_ref)
    /\ blockCalls # {} => (aggCalls = 2 /\ n_test # n_ref)
    /\ (aggCalls = 2 /\ n_test = n_ref) =>
         (dpc \in {"range", "end"} /\ aggCalls + Cardinality(blockCalls) = 2)

\* A range of several blocks on which both providers answered the same
\* count, other than the stored one, left without a per-block call.
C11_Witness ==
    /\ dpc \in {"range", "end"}
    /\ aggCalls = 2
    /\ n_test = n_ref
    /\ n_test >= 0
    /\ blockCalls = {}
    /\ \E i \in 1..Len(ranges) :
         /\ ranges[i][2] > ranges[i][1]
         /\ ChainCount(refChain, ranges[i][1], ranges[i][2]) = n_ref
         /\ ranges[i][3] # n_ref

\* Rows of rpc_discrepancies written since the localizer at hand started.
RowsWritten ==
    {rpc_discrepancies[i] : i \in (Len(discBefore) + 1)..Len(rpc_discrepancies)}

\* C12: when the block-level scan of a range whose two aggregate counts
\* differ is over and has found differing blocks, the run has written
\* exactly one discrepancy row for that range.
C12_OneRowPerNarrowedRange ==
    (dpc = "scanned" /\ n_ref >= 0 /\ n_test >= 0 /\ reported # {}) =>
        Cardinality({r \in RowsWritten : /\ r.from_block = ranges[ri][1]
                                          /\ r.to_block = ranges[ri][2]}) = 1

\* The block-level scan of the last aggregated range was skipped.
ScanSkipped ==
    /\ aggCalls = 2
    /\ blockCalls = {}
    /\ dpc \in {"range", "end"}

\* C24: the block-level scan of a range is skipped only when both aggregate
\* values are counts (not the failure value -1) and equal; and a block of a
\* scan on which both per-block calls failed is among the reported blocks.
C24_FailureIsNoCount ==
    /\ ScanSkipped => (n_ref >= 0 /\ n_test >= 0 /\ n_ref = n_test)
    /\ dpc = "scanned" =>
         \A x \in RangeBlocks :
             (<<"ref", x, TRUE>> \in blockCalls /\ <<"test", x, TRUE>> \in blockCalls)
                 => x \in reported

--------------------------------------------------------------------------
\* Properties of the shallow localizer and of the window selection.

\* The rows the last comparison of main() appended.
LastAppended ==
    SubSeq(rpc_discrepancies, Len(lastCmp.before) + 1, Len(rpc_discrepancies))

\* C13: a comparison whose query delivered a live count appends the one row
\* (from, to, live count, PROVIDER) when the live count differs from the
\* stored count and appends nothing when they are equal; no comparison and
\* no run changes or removes a row that was there, and no two rows share an
\* id, so equal findings of repeated runs stand as rows of their own.
C13_AppendIffDiffers ==
    /\ SubSeq(rpc_discrepancies, 1, Len(discBefore)) = discBefore
    /\ \A i, j \in DOMAIN rpc_discrepancies :
         rpc_discrepancies[i].id = rpc_discrepancies[j].id => i = j
    /\ lastCmp # NoCmp =>
         /\ SubSeq(rpc_discrepancies, 1, Len(lastCmp.before)) = lastCmp.before
         /\ lastCmp.n_new >= 0 =>
              IF lastCmp.n_new # lastCmp.n_old
              THEN LastAppended = << DiscRow(Len(lastCmp.before) + 1, lastCmp.b, lastCmp.e,
                                             lastCmp.n_new, PROVIDER) >>
              ELSE LastAppended = <<>>

\* A second run that found the discrepancy of the first run again, stored it
\* as a second row, and then compared a range with equal counts.
C13_Witness ==
    /\ vruns = 2
    /\ lastCmp # NoCmp
    /\ lastCmp.n_new = lastCmp.n_old
    /\ rpc_discrepancies = lastCmp.before
    /\ \E i, j \in DOMAIN rpc_discrepancies :
         /\ i < j
         /\ Len(discBefore) < j
         /\ rpc_discrepancies[i].from_block = rpc_discrepancies[j].from_block
         /\ rpc_discrepancies[i].to_block = rpc_discrepancies[j].to_block
         /\ rpc_discrepancies[i].discrepancy_count = rpc_discrepancies[j].discrepancy_count
         /\ rpc_discrepancies[i].provider = rpc_discrepancies[j].provider

\* Whether v is the value of candidates closest to target, the first such
\* value of the list on a tie.
FirstClosest(v, target, candidates) ==
    \E i \in DOMAIN candidates :
        /\ candidates[i] = v
        /\ \A j \in DOMAIN candidates : Abs(candidates[j] - target) >= Abs(v - target)
        /\ \A j \in 1..(i - 1) : Abs(candidates[j] - target) > Abs(v - target)

\* C18: the snapped from value is the from_block of all_ranges closest to
\* REQ_FROM_BLOCK and the snapped to value the to_block closest to
\* REQ_TO_BLOCK, each found without regard to the other bound; among equally
\* distant values the first of the list is taken, so from values 1, 3, 5
\* (as 100, 200, 300) and a request of 2 (as 150) always snap to 1.
C18_SnapToFirstClosest ==
    all_ranges # <<>> =>
        /\ REQ_FROM_BLOCK # None =>
             /\ FirstClosest(snapped_from(all_ranges, REQ_FROM_BLOCK), REQ_FROM_BLOCK[1],
                             from_values(all_ranges))
             /\ (from_values(all_ranges) = <<1, 3, 5>> /\ REQ_FROM_BLOCK = <<2>>) =>
                    snapped_from(all_ranges, REQ_FROM_BLOCK) = 1
        /\ REQ_TO_BLOCK # None =>
             FirstClosest(snapped_to(all_ranges, REQ_TO_BLOCK), REQ_TO_BLOCK[1],
                          to_values(all_ranges))

\* A request as far from the first from value as from the second, and a to
\* request as far from a to value as from a lower one later in the list.
C18_Witness ==
    /\ all_ranges # <<>>
    /\ REQ_FROM_BLOCK = <<2>>
    /\ from_values(all_ranges) = <<1, 3, 5>>
    /\ REQ_TO_BLOCK # None
    /\ \E i, j \in DOMAIN all_ranges :
         /\ i # j
         /\ Abs(all_ranges[i][2] - REQ_TO_BLOCK[1]) = Abs(all_ranges[j][2] - REQ_TO_BLOCK[1])
         /\ all_ranges[i][2] # all_ranges[j][2]

\* choose_window was applied to a non-empty list.
WindowChosen ==
    /\ vruns > 0
    /\ all_ranges # <<>>
    /\ REQ_FROM_BLOCK # None \/ REQ_TO_BLOCK # None

SnapLo == Min(snapped_from(all_ranges, REQ_FROM_BLOCK), snapped_to(all_ranges, REQ_TO_BLOCK))

SnapHi ==
    LET sf == snapped_from(all_ranges, REQ_FROM_BLOCK)
        st == snapped_to(all_ranges, REQ_TO_BLOCK)
    IN  IF sf >= st THEN sf ELSE st

\* Positions of all_ranges whose range lies within [SnapLo, SnapHi].
InsidePositions ==
    {i \in DOMAIN all_ranges : all_ranges[i][1] >= SnapLo /\ all_ranges[i][2] <= SnapHi}

\* selected holds the ranges at InsidePositions, each once, in stored order.
SelectedIsInside ==
    /\ Len(selected) = Cardinality(InsidePositions)
    /\ \E pos \in [DOMAIN selected -> InsidePositions] :
         /\ \A k \in DOMAIN selected : selected[k] = all_ranges[pos[k]]
         /\ \A k \in 1..(Len(selected) - 1) : pos[k] < pos[k + 1]

\* selected is a run of consecutive elements of all_ranges.
SelectedContiguous ==
    \A i, j \in InsidePositions : \A k \in i..j : k \in InsidePositions

\* C19 as stated: the selected ranges are the stored ranges within the
\* snapped window, in stored order, and they are consecutive in the stored
\* list, whatever the stored list.
C19_ContiguousWindow ==
    WindowChosen => (SelectedIsInside /\ SelectedContiguous)

\* The to_block values of all_ranges ascend with the list.
ToAscending ==
    \A i \in 1..(Len(all_ranges) - 1) : all_ranges[i][2] <= all_ranges[i + 1][2]

\* C19 amended: the selected ranges are the stored ranges within the snapped
\* window, in stored order; they are consecutive in the stored list when the
\* to_block values ascend with the list, as they do without overlaps.
C19_WindowIsFilter ==
    WindowChosen => (SelectedIsInside /\ (ToAscending => SelectedContiguous))

\* A window that leaves out ranges before and after the selected ones.
C19_Witness ==
    /\ WindowChosen
    /\ ToAscending
    /\ Len(all_ranges) >= 3
    /\ selected # <<>>
    /\ 1 \notin InsidePositions
    /\ Len(all_ranges) \notin InsidePositions

\* The bound a run was given: the flag, or else the environment's value.
Supplied(arg, env) == IF arg # None THEN arg ELSE env

\* C20: with neither bound supplied the selected list is the stored list;
\* with a bound supplied, block 0 included, it is the window chosen for the
\* supplied bounds.
C20_SuppliedBoundsCount ==
    vruns > 0 =>
        LET rf == Supplied(args_from_block, ENV_FROM_BLOCK)
            rt == Supplied(args_to_block, ENV_TO_BLOCK)
        IN  selected = IF rf = None /\ rt = None THEN all_ranges
                       ELSE choose_window(all_ranges, rf, rt)

\* C25: a run of main() reads every OK row of log_ranges, ERROR rows or rows
\* of other providers beside them or not, and when it is over it has
\* compared every range it selected.
C25_ErrorRowsDoNotAbort ==
    vruns > 0 =>
        /\ \A r \in log_ranges :
             r.status = "OK" =>
                 \E i \in DOMAIN all_ranges :
                     all_ranges[i] = <<r.from_block, r.to_block, r.cnt>>
        /\ (vpc = "end" /\ selected # <<>>) =>
             (si = Len(selected) /\ lastCmp # NoCmp)

\* C26: every row of rpc_discrepancies holds a discrepancy_count that is a
\* count, never the failure value -1, and a comparison whose query failed
\* appended no row.
C26_NoSentinelStored ==
    /\ \A i \in DOMAIN rpc_discrepancies : rpc_discrepancies[i].discrepancy_count >= 0
    /\ (lastCmp # NoCmp /\ lastCmp.n_new < 0) => LastAppended = <<>>

\* A comparison whose query failed, after one that stored a discrepancy.
C26_Witness ==
    /\ lastCmp # NoCmp
    /\ lastCmp.n_new = -1
    /\ rpc_discrepancies = lastCmp.before
    /\ Len(rpc_discrepancies) > Len(discBefore)

====
